---- MODULE Spec2Model ----
(***************************************************************************)
(* Model of vtpy.py: the Tag record class with its process-wide column     *)
(* cache (Tag._column_names) and the DBConnection class that reads and     *)
(* writes tags through a pyodbc connection.                                *)
(*                                                                         *)
(* The pyodbc connection is modelled by its documented behaviour:          *)
(* autocommit is off, so the writes of cursor.execute stay in the          *)
(* connection's transaction (session) until cursor.commit(); close()       *)
(* rolls back what was not committed; cursor() on a closed connection      *)
(* raises ProgrammingError.                                                *)
(***************************************************************************)
EXTENDS Integers, Sequences, FiniteSets, TLC

VARIABLES
    column_names,   \* Tag._column_names : tag_type -> list of columns
    tags,           \* the Tag objects alive in the process, by creation order
    conn,           \* per database file: the DBConnection object made for it
    committed,      \* per database file: the committed rows of every table
    session,        \* per database file: the rows as the connection's transaction sees them
    stdout          \* table names printed by get_columns_by_type

vars == <<column_names, tags, conn, committed, session, stdout>>

-----------------------------------------------------------------------------
(* Bounds *)
MaxTags  == 2      \* Tag objects kept alive at once
MaxRows  == 1      \* rows per table
MaxBatch == 2      \* length of the tag_list given to add_tags / update_tags

-----------------------------------------------------------------------------
(* Values and names *)
None == "None"                       \* Python None / SQL NULL
id_col == "Export Info - leave blank for new records"
id_properties == <<id_col, "AuditName", "Original Shortname">>
IdSet == {id_properties[i] : i \in 1..Len(id_properties)}

Values == {"", "a"}                  \* strings a caller passes
Files == {"A.mdb", "B.mdb"}
NoTable == "NoSuchTable"

\* The tables of each file with their columns in database order.  B.mdb
\* has another schema for T, and a table Z whose description is empty.
Schema ==
    [f \in Files |->
        IF f = "A.mdb"
        THEN [t \in {"T"} |-> <<id_col, "Name">>]
        ELSE [t \in {"T", "Z"} |->
                IF t = "T" THEN <<"Name", id_col, "AuditName">> ELSE <<>>]]

TableTypes == {"T", "Z", NoTable}    \* tag_type arguments callers pass

Range(s) == {s[i] : i \in 1..Len(s)}
Min(a, b) == IF a < b THEN a ELSE b

-----------------------------------------------------------------------------
(* class Tag *)

\* dict(zip(columns, values)): pairs up to the shorter list, a later
\* duplicate key overriding an earlier one.
zipdict(columns, values) ==
    LET n == Min(Len(columns), Len(values))
        keys == {columns[i] : i \in 1..n}
        lastpos(k) == CHOOSE i \in 1..n : columns[i] = k /\ \A j \in (i+1)..n : columns[j] # k
    IN  [k \in keys |-> values[lastpos(k)]]

\* Tag.__init__: the object
TagInit(tag_type, columns, values) ==
    [tag_type |-> tag_type, value_dict |-> zipdict(columns, values)]

\* a cache that every construction overwrites
CacheOverwritten(cn, tag_type, columns) ==
    [t \in DOMAIN cn \cup {tag_type} |-> IF t = tag_type THEN columns ELSE cn[t]]

\* Tag.__init__: the cache entry is written only when the key is absent
CacheAfterInit(cn, tag_type, columns) ==
    IF tag_type \notin DOMAIN cn
    THEN [t \in DOMAIN cn \cup {tag_type} |-> IF t = tag_type THEN columns ELSE cn[t]]
    ELSE cn

\* Tag.set on the dictionary
dict_set(vd, column, value) ==
    [k \in DOMAIN vd \cup {column} |-> IF k = column THEN value ELSE vd[k]]

\* Tag.get
get(tag, column) ==
    IF column \in DOMAIN tag.value_dict THEN tag.value_dict[column] ELSE None

\* Tag.values_as_list: raises KeyError when a cached column is not a key
values_as_list_ok(tag, cn) ==
    /\ tag.tag_type \in DOMAIN cn
    /\ Range(cn[tag.tag_type]) \subseteq DOMAIN tag.value_dict

\* the values listed from the last cached column to the first
values_as_list_reversed(tag, cn) ==
    LET columns == cn[tag.tag_type]
    IN  [i \in 1..Len(columns) |-> tag.value_dict[columns[Len(columns) + 1 - i]]]

values_as_list(tag, cn) ==
    LET columns == cn[tag.tag_type]
    IN  [i \in 1..Len(columns) |-> tag.value_dict[columns[i]]]

\* Tag.remove_id_info on the dictionary: the loop over id_properties
RECURSIVE remove_id_loop(_, _)
remove_id_loop(vd, i) ==
    IF i > Len(id_properties) THEN vd
    ELSE remove_id_loop(
            IF id_properties[i] \in DOMAIN vd THEN dict_set(vd, id_properties[i], "") ELSE vd,
            i + 1)

\* the loop without its test for the key: absent identity keys are added
remove_id_info_unconditional(vd) ==
    [k \in DOMAIN vd \cup IdSet |-> IF k \in IdSet THEN "" ELSE vd[k]]

\* every value blanked, identity key or not
remove_id_info_blank_all(vd) == [k \in DOMAIN vd |-> ""]

remove_id_info(vd) == remove_id_loop(vd, 1)

\* Tag.separate_tags_by_type followed by the two nested loops of add_tags
\* and update_tags: the tag types in order of first appearance, and under
\* each its tags in input order.
RECURSIVE TypesInOrder(_, _)
TypesInOrder(tl, tag_list) ==
    IF tag_list = <<>> THEN <<>>
    ELSE LET ty == tl[Head(tag_list)].tag_type
             rest == SelectSeq(Tail(tag_list), LAMBDA i : tl[i].tag_type # ty)
         IN  <<ty>> \o TypesInOrder(tl, rest)

RECURSIVE Flatten(_, _, _)
Flatten(tl, tag_list, types) ==
    IF types = <<>> THEN <<>>
    ELSE SelectSeq(tag_list, LAMBDA i : tl[i].tag_type = Head(types))
            \o Flatten(tl, tag_list, Tail(types))

separate_tags_by_type(tl, tag_list) == Flatten(tl, tag_list, TypesInOrder(tl, tag_list))

-----------------------------------------------------------------------------
InitRows(f) == [t \in DOMAIN Schema[f] |-> <<>>]

Init ==
    /\ column_names = [t \in {} |-> <<>>]
    /\ tags = <<>>
    /\ conn = [f \in Files |-> [state |-> "unopened", table_columns |-> [t \in {} |-> <<>>]]]
    /\ committed = [f \in Files |-> InitRows(f)]
    /\ session = [f \in Files |-> InitRows(f)]
    /\ stdout = {}

-----------------------------------------------------------------------------
(* Tag operations called directly *)

CtorColumns == {<<id_col>>}

\* Tag(tag_type, columns, values)
NewTag(tag_type, columns, values) ==
    /\ Len(tags) < MaxTags
    /\ tags' = Append(tags, TagInit(tag_type, columns, values))
    /\ column_names' = CacheAfterInit(column_names, tag_type, columns)
    /\ UNCHANGED <<conn, committed, session, stdout>>

\* tag.set(column, value)
Set(i, column, value) ==
    /\ i \in 1..Len(tags)
    /\ tags' = [tags EXCEPT ![i].value_dict = dict_set(@, column, value)]
    /\ UNCHANGED <<column_names, conn, committed, session, stdout>>

\* tag.remove_id_info()
RemoveIdInfo(i) ==
    /\ i \in 1..Len(tags)
    /\ tags' = [tags EXCEPT ![i].value_dict = remove_id_info(@)]
    /\ UNCHANGED <<column_names, conn, committed, session, stdout>>

-----------------------------------------------------------------------------
(* The pyodbc connection and the statements sent through it *)

Columns(f, t) == Range(Schema[f][t])

NoDuplicates(s) == \A i, j \in 1..Len(s) : s[i] = s[j] => i = j

\* list(row): the values of a row in database order
RowValues(f, t, row) == [i \in 1..Len(Schema[f][t]) |-> row[Schema[f][t][i]]]

\* "select * from {table}" is accepted
SelectOk(f, t) == t \in DOMAIN Schema[f]

\* "insert into {tag_type} ([c1],[c2],..) values (?,?,..)" is accepted
InsertOk(f, t, columns) ==
    /\ t \in DOMAIN Schema[f]
    /\ columns # <<>>
    /\ NoDuplicates(columns)
    /\ Range(columns) \subseteq Columns(f, t)

\* parameters bound to the named columns in reverse
InsertedRowMisaligned(f, t, columns, values) ==
    [c \in Range(Schema[f][t]) |->
        IF c \in Range(columns)
        THEN values[Len(columns) + 1 - (CHOOSE i \in 1..Len(columns) : columns[i] = c)]
        ELSE None]

\* the row that insert statement adds: the named columns take the
\* parameters by position, every other column of the table is NULL
InsertedRow(f, t, columns, values) ==
    [c \in Columns(f, t) |->
        IF c \in Range(columns)
        THEN values[CHOOSE i \in 1..Len(columns) : columns[i] = c]
        ELSE None]

\* "select * from {tag_type} where [Export Info ...] = ?" is accepted
SelectByIdOk(f, t) == t \in DOMAIN Schema[f] /\ id_col \in Columns(f, t)

\* the rows that select returns: NULL equals nothing
MatchesId(row, updated_id) == updated_id # None /\ row[id_col] = updated_id

\* "update {tag_type} set [c1]=?,[c2]=?,.. where [Export Info ...] = ?" is accepted
UpdateOk(f, t, columns) ==
    /\ SelectByIdOk(f, t)
    /\ columns # <<>>
    /\ Range(columns) \subseteq Columns(f, t)

\* that update statement on one row
UpdatedRow(row, columns, values) ==
    [c \in DOMAIN row |->
        IF c \in Range(columns)
        THEN values[CHOOSE i \in 1..Len(columns) :
                        columns[i] = c /\ \A j \in (i+1)..Len(columns) : columns[j] # c]
        ELSE row[c]]

\* "Name like '%' + ?" on values without wildcard characters: the value
\* ends with the parameter.  The values of this model are "" and "a".
NameLike(v, name) == v # None /\ (name = "" \/ v = name)

-----------------------------------------------------------------------------
(* class DBConnection *)

Opened(f) == conn[f].state # "unopened"
IsClosed(f) == conn[f].state = "closed"

\* self.conn.cursor() on a closed pyodbc connection
ClosedError == "ProgrammingError: Attempt to use a closed connection."
\* cursor.execute rejected by the store
StoreError == "pyodbc.Error"
\* the exception update_tags raises itself
NotFound == "Exception: Update failed - tag not found."

\* DBConnection.get_columns_by_type: the columns of cursor.description
get_columns_by_type(f, tag_type) == Schema[f][tag_type]

\* DBConnection.get_columns_by_type: the table is printed when it has no column
PrintedBy(f) == {t \in DOMAIN Schema[f] : Len(get_columns_by_type(f, t)) = 0}

\* a table_columns that leaves out the tables without columns
TableColumnsSkippingEmpty(f) ==
    [t \in {u \in DOMAIN Schema[f] : Schema[f][u] # <<>>} |-> Schema[f][t]]

\* DBConnection.__init__: self.table_columns
TableColumnsOf(f) == [t \in DOMAIN Schema[f] |-> get_columns_by_type(f, t)]

\* DBConnection(file)
Open(f) ==
    /\ conn[f].state = "unopened"
    /\ conn' = [conn EXCEPT ![f] = [state |-> "open", table_columns |-> TableColumnsOf(f)]]
    /\ stdout' = stdout \cup PrintedBy(f)
    /\ UNCHANGED <<column_names, tags, committed, session>>

\* DBConnection.close: pyodbc rolls the open transaction back; closing a
\* closed connection raises and changes nothing
Close(f) ==
    /\ conn[f].state = "open"
    /\ conn' = [conn EXCEPT ![f].state = "closed"]
    /\ session' = [session EXCEPT ![f] = committed[f]]
    /\ UNCHANGED <<column_names, tags, committed, stdout>>

\* the Tag objects a list comprehension over the rows of one table makes,
\* and the column cache after them
TagsOfRows(f, t, rows) ==
    [i \in 1..Len(rows) |-> TagInit(t, conn[f].table_columns[t], RowValues(f, t, rows[i]))]

CacheAfterRows(cn, f, t, rows) ==
    IF rows = <<>> THEN cn ELSE CacheAfterInit(cn, t, conn[f].table_columns[t])

\* the tables in the order of self.table_columns.keys()
TableOrder(f) == IF f = "A.mdb" THEN <<"T">> ELSE <<"T", "Z">>

RECURSIVE AllTags(_, _)
AllTags(f, tables) ==
    IF tables = <<>> THEN <<>>
    ELSE TagsOfRows(f, Head(tables), session[f][Head(tables)]) \o AllTags(f, Tail(tables))

RECURSIVE CacheAfterAll(_, _, _)
CacheAfterAll(cn, f, tables) ==
    IF tables = <<>> THEN cn
    ELSE CacheAfterAll(CacheAfterRows(cn, f, Head(tables), session[f][Head(tables)]),
                       f, Tail(tables))

\* What a call that makes Tag objects comes to: how it ends, the Tag
\* objects it made (returned), and Tag._column_names after it.
Made(result, new, cn) == [result |-> result, new |-> new, cache |-> cn]
Raised(result) == Made(result, <<>>, column_names)

\* DBConnection.get_tags(): every table
GetTagsAll(f) ==
    IF IsClosed(f) THEN Raised(ClosedError)
    ELSE Made("ok", AllTags(f, TableOrder(f)), CacheAfterAll(column_names, f, TableOrder(f)))

\* DBConnection.get_tags(tag_type)
GetTags(f, tag_type) ==
    IF IsClosed(f) THEN Raised(ClosedError)
    ELSE IF ~SelectOk(f, tag_type) THEN Raised(StoreError)
    ELSE Made("ok", TagsOfRows(f, tag_type, session[f][tag_type]),
              CacheAfterRows(column_names, f, tag_type, session[f][tag_type]))

\* DBConnection.get_tag_by_name(tag_type, name)
GetTagByName(f, tag_type, name) ==
    IF IsClosed(f) THEN Raised(ClosedError)
    ELSE IF ~(SelectOk(f, tag_type) /\ "Name" \in Columns(f, tag_type)) THEN Raised(StoreError)
    ELSE LET rows == session[f][tag_type]
             hits == {i \in 1..Len(rows) : NameLike(rows[i]["Name"], name)}
         IN  IF hits = {} THEN Made("ok", <<>>, column_names)
             ELSE LET first == CHOOSE i \in hits : \A j \in hits : i <= j
                  IN  Made("ok", TagsOfRows(f, tag_type, <<rows[first]>>),
                           CacheAfterInit(column_names, tag_type, conn[f].table_columns[tag_type]))

\* a template filled with None instead of ''
CreateTagTemplateOfNone(f, tag_type) ==
    IF tag_type \notin DOMAIN conn[f].table_columns
    THEN [result |-> "KeyError", new |-> <<>>, cache |-> column_names]
    ELSE LET columns == conn[f].table_columns[tag_type]
         IN  [result |-> "ok",
              new |-> <<TagInit(tag_type, columns, [i \in 1..Len(columns) |-> None])>>,
              cache |-> CacheAfterInit(column_names, tag_type, columns)]

\* DBConnection.create_tag_template(tag_type): no statement is sent
CreateTagTemplate(f, tag_type) ==
    IF tag_type \notin DOMAIN conn[f].table_columns THEN Raised("KeyError")
    ELSE LET columns == conn[f].table_columns[tag_type]
         IN  Made("ok", <<TagInit(tag_type, columns, [i \in 1..Len(columns) |-> ""])>>,
                  CacheAfterInit(column_names, tag_type, columns))

\* the state after a call that makes Tag objects
Makes(r) ==
    /\ Len(tags) + Len(r.new) <= MaxTags
    /\ tags' = tags \o r.new
    /\ column_names' = r.cache
    /\ UNCHANGED <<conn, committed, session, stdout>>

get_tags_all(f) == Opened(f) /\ Makes(GetTagsAll(f))
get_tags(f, tag_type) == Opened(f) /\ Makes(GetTags(f, tag_type))
get_tag_by_name(f, tag_type, name) == Opened(f) /\ Makes(GetTagByName(f, tag_type, name))
create_tag_template(f, tag_type) == Opened(f) /\ Makes(CreateTagTemplate(f, tag_type))

\* What add_tags / update_tags come to: how the call ends, the Tag objects
\* and the rows of the transaction after it, and how many tags of the
\* grouped list were written before it ended.
Wrote(result, tl, ses, done) == [result |-> result, tags |-> tl, ses |-> ses, done |-> done]

\* The loops of add_tags from the k-th tag of the grouped list on
RECURSIVE AddLoop(_, _, _, _, _, _, _, _)
AddLoop(tl, ses, cn, f, order, k, rid, failAt) ==
    IF k > Len(order) THEN Wrote("ok", tl, ses, k - 1)
    ELSE LET i == order[k]
             tl1 == IF rid THEN [tl EXCEPT ![i].value_dict = remove_id_info(@)] ELSE tl
             tag == tl1[i]
             ty == tag.tag_type
         IN  IF ~values_as_list_ok(tag, cn) THEN Wrote("KeyError", tl1, ses, k - 1)
             ELSE IF failAt = k \/ ~InsertOk(f, ty, cn[ty]) THEN Wrote(StoreError, tl1, ses, k - 1)
             ELSE AddLoop(tl1,
                          [ses EXCEPT ![ty] = Append(@, InsertedRow(f, ty, cn[ty], values_as_list(tag, cn)))],
                          cn, f, order, k + 1, rid, failAt)

\* add_tags as it would be if a closed connection still handed out cursors
AddTagsOnAnyHandle(f, tag_list, rid, failAt) ==
    AddLoop(tags, session[f], column_names, f,
            separate_tags_by_type(tags, tag_list), 1, rid, failAt)

\* DBConnection.add_tags(tag_list, remove_id_info); failAt > 0 is the
\* position of a statement the store rejects for a reason of its own (0: none)
AddTags(f, tag_list, rid, failAt) ==
    IF IsClosed(f) THEN Wrote(ClosedError, tags, session[f], 0)
    ELSE AddLoop(tags, session[f], column_names, f,
                 separate_tags_by_type(tags, tag_list), 1, rid, failAt)

\* The loops of update_tags from the k-th tag of the grouped list on
RECURSIVE UpdateLoop(_, _, _, _, _, _)
UpdateLoop(tl, ses, cn, f, order, k) ==
    IF k > Len(order) THEN Wrote("ok", tl, ses, k - 1)
    ELSE LET tag == tl[order[k]]
             ty == tag.tag_type
             updated_id == get(tag, id_col)
         IN  IF ~SelectByIdOk(f, ty) THEN Wrote(StoreError, tl, ses, k - 1)
             ELSE IF \A n \in 1..Len(ses[ty]) : ~MatchesId(ses[ty][n], updated_id)
             THEN Wrote(NotFound, tl, ses, k - 1)
             ELSE IF ~values_as_list_ok(tag, cn) THEN Wrote("KeyError", tl, ses, k - 1)
             ELSE IF ~UpdateOk(f, ty, cn[ty]) THEN Wrote(StoreError, tl, ses, k - 1)
             ELSE UpdateLoop(tl,
                    [ses EXCEPT ![ty] =
                        [n \in 1..Len(@) |->
                            IF MatchesId(@[n], updated_id)
                            THEN UpdatedRow(@[n], cn[ty], values_as_list(tag, cn))
                            ELSE @[n]]],
                    cn, f, order, k + 1)

\* DBConnection.update_tags(tag_list)
UpdateTags(f, tag_list) ==
    IF IsClosed(f) THEN Wrote(ClosedError, tags, session[f], 0)
    ELSE UpdateLoop(tags, session[f], column_names, f,
                    separate_tags_by_type(tags, tag_list), 1)

\* a commit issued whether or not a call raised
AfterCommitAlways(f, r) == [committed EXCEPT ![f] = r.ses]

\* cursor.commit() is reached only when no call raised
AfterCommit(f, r) == IF r.result = "ok" THEN [committed EXCEPT ![f] = r.ses] ELSE committed

\* the state after add_tags / update_tags
Writes(f, r) ==
    /\ \A t \in DOMAIN r.ses : Len(r.ses[t]) <= MaxRows
    /\ tags' = r.tags
    /\ session' = [session EXCEPT ![f] = r.ses]
    /\ committed' = AfterCommit(f, r)
    /\ UNCHANGED <<column_names, conn, stdout>>

add_tags(f, tag_list, rid, failAt) ==
    /\ Opened(f)
    /\ failAt <= AddTags(f, tag_list, rid, 0).done
    /\ Writes(f, AddTags(f, tag_list, rid, failAt))

update_tags(f, tag_list) == Opened(f) /\ Writes(f, UpdateTags(f, tag_list))

-----------------------------------------------------------------------------
\* the tag lists a caller passes: up to MaxBatch of the live tags
RECURSIVE SeqsUpTo(_, _)
SeqsUpTo(S, n) ==
    IF n = 0 THEN {<<>>}
    ELSE LET shorter == SeqsUpTo(S, n - 1)
         IN  shorter \cup {Append(s, x) : s \in {q \in shorter : Len(q) = n - 1}, x \in S}

TagLists == SeqsUpTo(1..Len(tags), MaxBatch)

SetInputs == {<<"Name", "a">>, <<"Extra", "a">>}

Next ==
    \/ \E f \in Files : Open(f)
    \/ \E f \in Files : Close(f)
    \/ \E f \in Files : get_tags_all(f)
    \/ \E f \in Files, t \in TableTypes : get_tags(f, t)
    \/ \E f \in Files, t \in TableTypes, n \in Values : get_tag_by_name(f, t, n)
    \/ \E f \in Files, t \in TableTypes : create_tag_template(f, t)
    \/ \E f \in Files, tl \in TagLists, rid \in BOOLEAN, k \in 0..MaxBatch : add_tags(f, tl, rid, k)
    \/ \E f \in Files, tl \in TagLists : update_tags(f, tl)
    \/ \E cols \in CtorColumns : NewTag("T", cols, [i \in 1..Len(cols) |-> "a"])
    \/ \E i \in 1..MaxTags, cv \in SetInputs : Set(i, cv[1], cv[2])
    \/ \E i \in 1..MaxTags : RemoveIdInfo(i)

Spec == Init /\ [][Next]_vars

\* The Tag class alone, with all three identity columns in play: tags are
\* made from two column lists and changed by set and remove_id_info.
TagCtorColumns == {<<id_col, "AuditName", "Name">>, <<"Original Shortname", "Name">>}
TagSetInputs == {<<"Name", "">>, <<"Extra", "a">>, <<"Original Shortname", "a">>, <<id_col, "a">>}

NextTag ==
    \/ \E cols \in TagCtorColumns : NewTag("T", cols, [i \in 1..Len(cols) |-> "a"])
    \/ \E i \in 1..MaxTags, cv \in TagSetInputs : Set(i, cv[1], cv[2])
    \/ \E i \in 1..MaxTags : RemoveIdInfo(i)

SpecTag == Init /\ [][NextTag]_vars

-----------------------------------------------------------------------------
(* Properties *)

OpenFiles == {f \in Files : conn[f].state = "open"}
ClosedFiles == {f \in Files : IsClosed(f)}
FailAts == 0..MaxBatch

\* the rows of table t the first `done` tags of the grouped list add, as
\* the insert statement of add_tags writes them
RECURSIVE PrefixRows(_, _, _, _, _)
PrefixRows(f, t, tl, order, done) ==
    IF done = 0 THEN <<>>
    ELSE LET tag == tl[order[done]]
         IN  PrefixRows(f, t, tl, order, done - 1)
                \o (IF tag.tag_type = t
                    THEN <<InsertedRow(f, t, column_names[t], values_as_list(tag, column_names))>>
                    ELSE <<>>)

\* C1 (as amended): on a closed connection get_tags, get_tag_by_name,
\* add_tags and update_tags all raise pyodbc's closed-connection error and
\* leave tags, transaction and committed store as they were.
C1_ClosedRejectsStoreCalls ==
    \A f \in ClosedFiles :
        /\ GetTagsAll(f) = Raised(ClosedError)
        /\ \A t \in TableTypes : GetTags(f, t) = Raised(ClosedError)
        /\ \A t \in TableTypes, n \in Values : GetTagByName(f, t, n) = Raised(ClosedError)
        /\ \A tl \in TagLists, rid \in BOOLEAN :
              LET r == AddTags(f, tl, rid, 0)
              IN  r = Wrote(ClosedError, tags, session[f], 0) /\ AfterCommit(f, r) = committed
        /\ \A tl \in TagLists :
              LET r == UpdateTags(f, tl)
              IN  r = Wrote(ClosedError, tags, session[f], 0) /\ AfterCommit(f, r) = committed

\* C1 as claimed: on a closed connection create_template fails as well.
C1_Original ==
    /\ C1_ClosedRejectsStoreCalls
    /\ \A f \in ClosedFiles, t \in TableTypes : CreateTagTemplate(f, t).result = ClosedError

\* a connection was closed after rows were committed through it
C1_Witness == \E f \in ClosedFiles : committed[f]["T"] # <<>>

\* C2 as claimed: an update_tags call that ends in "tag not found" leaves
\* the store unchanged, the rows the connection's next commit writes included.
C2_UpdateNotFoundLeavesStoreUnchanged ==
    \A f \in OpenFiles, tl \in TagLists :
        LET r == UpdateTags(f, tl)
        IN  r.result = NotFound => r.ses = session[f] /\ AfterCommit(f, r) = committed

\* C3 (as amended): when a statement of add_tags raises after `done` tags
\* were written, the commit is not reached: the committed store is what it
\* was, and the transaction holds its earlier rows followed by the rows of
\* those `done` tags, table by table.
C3_FailedInsertLeavesPrefixPending ==
    \A f \in OpenFiles, tl \in TagLists, rid \in BOOLEAN, k \in FailAts :
        LET r == AddTags(f, tl, rid, k)
            order == separate_tags_by_type(tags, tl)
        IN  r.result # "ok" =>
              /\ AfterCommit(f, r) = committed
              /\ \A t \in DOMAIN session[f] :
                    r.ses[t] = session[f][t] \o PrefixRows(f, t, r.tags, order, r.done)

\* C3 as claimed: the rows written before the failure are committed.
C3_Original ==
    \A f \in OpenFiles, tl \in TagLists, rid \in BOOLEAN, k \in FailAts :
        LET r == AddTags(f, tl, rid, k)
            order == separate_tags_by_type(tags, tl)
        IN  r.result # "ok" =>
              \A t \in DOMAIN session[f] :
                 Len(AfterCommit(f, r)[f][t])
                    = Len(committed[f][t]) + Len(PrefixRows(f, t, r.tags, order, r.done))

\* an add_tags call has failed after writing a row: the row is in the
\* transaction of the open connection and not in the committed store
C3_Witness ==
    \E f \in OpenFiles : Len(session[f]["T"]) > Len(committed[f]["T"])

\* The rows r.ses holds beyond session[f]: per table one row per submitted
\* tag of that type, in input order.  A column of the cached order holds
\* the tag's value for it, or "" when ids are removed and it is an identity
\* column; a column outside the cached order holds None, or, with
\* blankEveryId, "" when ids are removed and it is an identity column.
C4_RowsAdded(f, tl, rid, r, blankEveryId) ==
    \A t \in DOMAIN session[f] :
        LET recs == SelectSeq(tl, LAMBDA i : tags[i].tag_type = t)
            old == Len(session[f][t])
        IN  /\ Len(r.ses[t]) = old + Len(recs)
            /\ SubSeq(r.ses[t], 1, old) = session[f][t]
            /\ \A j \in 1..Len(recs) :
                  LET row == r.ses[t][old + j]
                      vd == tags[recs[j]].value_dict
                  IN  \A c \in Columns(f, t) :
                         row[c] = IF rid /\ c \in IdSet /\ (blankEveryId \/ c \in Range(column_names[t]))
                                  THEN ""
                                  ELSE IF c \in Range(column_names[t]) THEN vd[c]
                                  ELSE None

\* C4 (as amended): an add_tags call that succeeds appends, to each table,
\* one row per submitted tag of that type in input order; in each row a
\* column of the cached order holds the tag's value for it, blank when ids
\* are removed and the column is an identity column, and a column of the
\* table outside the cached order holds NULL; the rows are committed.
C4_InsertWritesCachedColumns ==
    \A f \in OpenFiles, tl \in TagLists, rid \in BOOLEAN :
        LET r == AddTags(f, tl, rid, 0)
        IN  r.result = "ok" =>
              /\ C4_RowsAdded(f, tl, rid, r, FALSE)
              /\ \A i \in Range(tl) : tags[i].tag_type \in DOMAIN session[f]
              /\ AfterCommit(f, r)[f] = r.ses

\* C4 as claimed: with ids removed, every identity column of every added
\* row is blank.
C4_Original ==
    \A f \in OpenFiles, tl \in TagLists, rid \in BOOLEAN :
        LET r == AddTags(f, tl, rid, 0)
        IN  r.result = "ok" => C4_RowsAdded(f, tl, rid, r, TRUE)

\* a successful add_tags committed a row, and another one a row whose
\* identity column holds a value
C4_Witness ==
    \E f \in Files :
        /\ committed[f]["T"] # <<>>
        /\ committed[f]["T"][1][id_col] \in {"", "a"}
        /\ Len(column_names["T"]) >= 2

\* the Tag a caller gets back from its own columns() and values_as_list()
Reconstructed(tag) ==
    TagInit(tag.tag_type, column_names[tag.tag_type], values_as_list(tag, column_names))

\* C5 (as amended): for every tag whose keys are exactly the cached columns
\* of its type, values_as_list has one value per cached column and a Tag
\* built from the cached columns and that list equals the tag.
C5_RoundTripWhenFieldsAreTheCachedColumns ==
    \A i \in 1..Len(tags) :
        DOMAIN tags[i].value_dict = Range(column_names[tags[i].tag_type]) =>
           /\ values_as_list_ok(tags[i], column_names)
           /\ Len(values_as_list(tags[i], column_names)) = Len(column_names[tags[i].tag_type])
           /\ Reconstructed(tags[i]) = tags[i]

\* C5 as claimed: that holds for every tag, whatever set calls it has seen.
C5_Original ==
    \A i \in 1..Len(tags) :
        /\ values_as_list_ok(tags[i], column_names)
        /\ Len(values_as_list(tags[i], column_names)) = Len(column_names[tags[i].tag_type])
        /\ Reconstructed(tags[i]) = tags[i]

\* a tag on the cached columns of its type whose Name a set call has
\* blanked and whose ids were removed
C5_Witness ==
    \E i \in 1..Len(tags) :
        /\ DOMAIN tags[i].value_dict = Range(column_names[tags[i].tag_type])
        /\ Len(column_names[tags[i].tag_type]) = 3
        /\ tags[i].value_dict["Name"] = ""
        /\ tags[i].value_dict[id_col] = ""

FieldsInCache(tag, cn) ==
    tag.tag_type \in DOMAIN cn /\ DOMAIN tag.value_dict \subseteq Range(cn[tag.tag_type])

\* C6 (as amended): a tag's keys leave the cached columns of its type only
\* by a set call naming a column outside them; a tag is made with keys
\* outside them only when its type was cached before by another
\* construction.  remove_id_info, get_tags, get_tag_by_name, add_tags and
\* update_tags keep every tag's keys inside the cached columns.
C6_SubsetBrokenOnlyBySetOrLaterConstruction ==
    [][\A i \in 1..Len(tags') :
          ~FieldsInCache(tags'[i], column_names') =>
             IF i <= Len(tags)
             THEN \/ ~FieldsInCache(tags[i], column_names)
                  \/ \E cv \in SetInputs :
                        /\ cv[1] \notin Range(column_names[tags[i].tag_type])
                        /\ Set(i, cv[1], cv[2])
             ELSE tags'[i].tag_type \in DOMAIN column_names]_vars

\* C6 as claimed: every tag's keys are among the cached columns of its type.
C6_Original == \A i \in 1..Len(tags) : FieldsInCache(tags[i], column_names)

\* a tag inside the cached columns whose ids were removed, next to a tag
\* of the same type with a key outside them
C6_Witness ==
    \E i, j \in 1..Len(tags) :
        /\ tags[i].tag_type = tags[j].tag_type
        /\ FieldsInCache(tags[i], column_names)
        /\ id_col \in DOMAIN tags[i].value_dict /\ tags[i].value_dict[id_col] = ""
        /\ ~FieldsInCache(tags[j], column_names)

\* C7: remove_id_info applied to the result of remove_id_info changes
\* nothing; it keeps the keys, leaves every identity key present with "",
\* adds no identity key, and keeps the value of every other key; the call
\* changes that one Tag object and no other.
C7_RemoveIdInfoIdempotent ==
    [][\A i \in 1..Len(tags) :
          RemoveIdInfo(i) =>
             LET before == tags[i].value_dict
                 after == tags'[i].value_dict
             IN  /\ remove_id_info(after) = after
                 /\ DOMAIN after = DOMAIN before
                 /\ \A c \in DOMAIN before : after[c] = IF c \in IdSet THEN "" ELSE before[c]
                 /\ Len(tags') = Len(tags)
                 /\ \A j \in 1..Len(tags) : j # i => tags'[j] = tags[j]]_vars

\* a tag whose ids were removed: the identity key it had is blank, the
\* other keys kept their values and no identity key was added
C7_Witness ==
    \E i \in 1..Len(tags) :
        /\ DOMAIN tags[i].value_dict = {"Original Shortname", "Name", "Extra"}
        /\ tags[i].value_dict["Original Shortname"] = ""
        /\ tags[i].value_dict["Name"] = "a"
        /\ tags[i].value_dict["Extra"] = "a"

\* the Tag get_tags makes of the last row of a table
LastFetched(f, t, rows) == TagsOfRows(f, t, rows)[Len(rows)]

\* create_tag_template, add_tags of that template, and the last row read
\* back: its non-identity fields are "" on the cached columns of the type
\* and valueOutsideCache on the others.
C8_RoundTrip(valueOutsideCache) ==
    \A f \in OpenFiles : \A t \in DOMAIN conn[f].table_columns, rid \in BOOLEAN :
        LET made == CreateTagTemplate(f, t)
            tl == tags \o made.new
            r == AddLoop(tl, session[f], made.cache, f, <<Len(tl)>>, 1, rid, 0)
        IN  made.result = "ok" /\ r.result = "ok" =>
              LET back == LastFetched(f, t, r.ses[t]).value_dict
              IN  \A c \in DOMAIN back \ IdSet :
                     back[c] = IF c \in Range(made.cache[t]) THEN "" ELSE valueOutsideCache

\* C8 (as amended): when add_tags accepts a template of table T, the row
\* read back has "" in every non-identity column of the cached order of T
\* and None in every non-identity column outside it.
C8_TemplateRoundTripBlankOnCachedColumns == C8_RoundTrip(None)

\* C8 as claimed: every non-identity field read back is blank.
C8_Original == C8_RoundTrip("")

\* a template was inserted: a committed row with blank Name and blank id
C8_Witness ==
    \E f \in OpenFiles :
        /\ committed[f]["T"] # <<>>
        /\ committed[f]["T"][1]["Name"] = ""
        /\ committed[f]["T"][1][id_col] = ""

ZeroColumnTables(f) == {t \in DOMAIN Schema[f] : Schema[f][t] = <<>>}

\* C9 (as amended): DBConnection(file) succeeds also when a table has no
\* columns: it prints the table's name and caches the empty list for it.
\* get_tags on that table then returns no tag, and add_tags and
\* update_tags with a tag of that type are rejected.
C9_OpenCachesEmptyColumnLists ==
    \A f \in Files :
        Opened(f) =>
           /\ DOMAIN conn[f].table_columns = DOMAIN Schema[f]
           /\ \A t \in DOMAIN Schema[f] : conn[f].table_columns[t] = Schema[f][t]
           /\ ZeroColumnTables(f) \subseteq stdout
           /\ (f \in OpenFiles =>
                 /\ \A t \in ZeroColumnTables(f) : GetTags(f, t) = Made("ok", <<>>, column_names)
                 /\ \A tl \in TagLists, rid \in BOOLEAN :
                       (\E i \in Range(tl) : tags[i].tag_type \in ZeroColumnTables(f)) =>
                          AddTags(f, tl, rid, 0).result # "ok" /\ UpdateTags(f, tl).result # "ok")

\* C9 as claimed: no open connection caches an empty column list.
C9_Original ==
    \A f \in OpenFiles : \A t \in DOMAIN conn[f].table_columns : conn[f].table_columns[t] # <<>>

\* B.mdb is open with the empty list cached for Z and a tag of type Z made
C9_Witness ==
    /\ "B.mdb" \in OpenFiles
    /\ conn["B.mdb"].table_columns["Z"] = <<>>
    /\ \E i \in 1..Len(tags) : tags[i].tag_type = "Z"

\* C10: an entry of Tag._column_names never changes once written, and an
\* entry is written only in a step that makes a tag of that type, whose
\* keys are among the columns written.
C10_ColumnCacheWriteOnce ==
    [][/\ \A t \in DOMAIN column_names :
             t \in DOMAIN column_names' /\ column_names'[t] = column_names[t]
       /\ \A t \in DOMAIN column_names' \ DOMAIN column_names :
             \E i \in (Len(tags) + 1)..Len(tags') :
                /\ tags'[i].tag_type = t
                /\ DOMAIN tags'[i].value_dict \subseteq Range(column_names'[t])]_vars

\* the entry for T is the column list of A.mdb although a tag of T was
\* made from the columns of B.mdb afterwards
C10_Witness ==
    /\ "T" \in DOMAIN column_names
    /\ column_names["T"] = Schema["A.mdb"]["T"]
    /\ \E i \in 1..Len(tags) :
          tags[i].tag_type = "T" /\ "AuditName" \in DOMAIN tags[i].value_dict
====
